---------------------------- MODULE Spec2Model ----------------------------
(***************************************************************************)
(* Model of dashboard4.py: a Streamlit script that is re-run from top to   *)
(* bottom on every user interaction.  One run ("render pass") filters the  *)
(* observation table, draws the series and, when a point of the main       *)
(* series was clicked, resolves and probes the map image of that point.    *)
(*                                                                         *)
(* Encodings.  A timestamp is the integer YYYYMMDD (its order is the       *)
(* calendar order).  A float v/100 is the pair [int, cent] with            *)
(* v = 100*int + cent.  The pixel threshold thr is kept as thr4 = 4*thr,   *)
(* which is an integer because the 25th percentile interpolates in         *)
(* quarters.  A path is the string os.path.join builds, with "/" as the    *)
(* separator and "maps" standing for MAPS_FOLDER.                          *)
(***************************************************************************)
EXTENDS Integers, Sequences, FiniteSets, TLC

\* ------------------------------------------------------------------ bounds
\* Number of rows of the observation table (the first NumRows rows of RowPool).
NumRows == 6

\* ------------------------------------------------------- program constants
\* max(5, ...) of the low-count threshold.
MinPixels == 5
\* values are stored multiplied by 100.
Scale == 100

\* Python's None (also what f"{path}" prints for it).
None == "None"

MAPS_FOLDER == "maps"

\* ------------------------------------------------------------------- data
BaseCols == {"nmoriginal", "date_key", "gid"}

\* The table schemas considered: the full one (canonical and truncated median
\* names), the legacy one (truncated name only), the canonical one without a
\* pixel count, and one with no median column at all and no turbidity mean.
Schemas ==
  { BaseCols \cup {"chla_mean", "chla_media", "chla_median", "chla_count",
                   "turb_mean", "turb_media", "turb_median", "turb_count"},
    BaseCols \cup {"chla_mean", "chla_media", "chla_count",
                   "turb_mean", "turb_media", "turb_count"},
    BaseCols \cup {"chla_mean", "chla_median", "turb_mean", "turb_median"},
    BaseCols \cup {"chla_mean", "chla_count", "turb_count"} }

Obs(m, d, g, cm, ca, cn, cc, tm, ta, tn, tc) ==
  [nmoriginal |-> m, date_key |-> d, gid |-> g,
   chla_mean |-> cm, chla_media |-> ca, chla_median |-> cn, chla_count |-> cc,
   turb_mean |-> tm, turb_media |-> ta, turb_median |-> tn, turb_count |-> tc]

\* Observations, not in date order; one observation per (water body, date).
RowPool ==
  << Obs("Lake A", 20200615, 42, 250, 240, 230,  9,  310, 300, 290, 12),
     Obs("Lake B", 20200720,  7,  90,  95,  85,  2,   60,  55,  58,  3),
     Obs("Lake A", 20190310, 42, 120,   0, -50,  4, -100,  80,  90,  3),
     Obs("Lake A", 20201105, 42, 400, 410, 405, 30,  150, 140,   0, 20),
     Obs("Lake B", 20200615,  7,  75,  70,  72,  3,    0,  10,  10,  4),
     Obs("Lake A", 20200720, 42,   0,  10,  10, 10,  520, 500, 505,  8),
     Obs("Lake A", 20210102, 42, 330, 320, 325,  6,  210, 200, 205,  7),
     Obs("Lake B", 20210102,  7,  40,  45,  42,  8,   35,  30,  32,  9) >>

Rows == SubSeq(RowPool, 1, IF NumRows < Len(RowPool) THEN NumRows ELSE Len(RowPool))

\* The table load_data returns for a snapshot with the columns S.
Table(S) == [i \in DOMAIN Rows |-> [c \in S |-> Rows[i][c]]]

Range(s) == {s[i] : i \in DOMAIN s}

\* sorted(gdf["nmoriginal"].dropna().unique())
masses ==
  SelectSeq(<<"Açude Castanhão", "Lake A", "Lake B">>,
            LAMBDA m : \E i \in DOMAIN Rows : Rows[i].nmoriginal = m)

\* "Açude Castanhão" if present, else the first water body.
default == IF "Açude Castanhão" \in Range(masses) THEN "Açude Castanhão" ELSE masses[1]

param_opts == {"chla_mean", "turb_mean"}
stat_opts == {"mean", "median"}
agg_opts == {"Diário", "Mensal", "Trimestral", "Anual",
             "Permanência", "Estado Trófico", "Estado Trófico Mensal"}

Dates == {Rows[i].date_key : i \in DOMAIN Rows}
dmin == CHOOSE d \in Dates : \A e \in Dates : d <= e
dmax == CHOOSE d \in Dates : \A e \in Dates : e <= d
\* The slider positions considered: the dates of the table.
SliderRanges == {<<a, b>> \in Dates \X Dates : a <= b}

\* ------------------------------------------------------------ map image tree
Join(parts) ==
  LET RECURSIVE J(_)
      J(k) == IF k = 1 THEN parts[1] ELSE J(k - 1) \o "/" \o parts[k]
  IN J(Len(parts))

\* The folders os.listdir may be asked for, with their entries.
MapDirs ==
  Join(<<MAPS_FOLDER, "42", "Chla", "Mensal", "Média">>)
      :> {"2020_06_somepoint.png", "IET"}
  @@ Join(<<MAPS_FOLDER, "42", "Turbidez", "Mensal", "Média">>)
      :> {"2020_06_a.png", "2020_06_b.png"}

MapFiles ==
  { Join(<<MAPS_FOLDER, "42", "Chla", "Diário", "20200615_Chla_Diario.png">>),
    Join(<<MAPS_FOLDER, "42", "Chla", "Mensal", "Média", "IET", "2020_06_IET.png">>),
    Join(<<MAPS_FOLDER, "42", "Chla", "Trimestral", "Média", "2020_2°Trimestre_Média.png">>),
    Join(<<MAPS_FOLDER, "42", "Chla", "Anual", "Média", "2020_Média.png">>),
    Join(<<MAPS_FOLDER, "42", "Chla", "2018_2024", "Permanência_90", "2018_2024_IET90.png">>),
    Join(<<MAPS_FOLDER, "42", "Turbidez", "Anual", "Permanência_90", "2020_Permanência 90%.png">>) }
  \cup UNION { {Join(<<d, e>>) : e \in MapDirs[d]} : d \in DOMAIN MapDirs }

os_path_exists(path) == path \in MapFiles \/ path \in DOMAIN MapDirs

\* os.listdir: the entries in arbitrary order, or FileNotFoundError.
os_listdir(folder) ==
  IF folder \notin DOMAIN MapDirs THEN {[raised |-> TRUE, names |-> << >>]}
  ELSE LET S == MapDirs[folder]
       IN {[raised |-> FALSE, names |-> s] :
             s \in {t \in [1..Cardinality(S) -> S] :
                      \A i, j \in DOMAIN t : i # j => t[i] # t[j]}}


\* ---------------------------------------------------------------- helpers
startswith(s, p) == Len(s) >= Len(p) /\ SubSeq(s, 1, Len(p)) = p

\* The candidate column names of a parameter's statistic, in the order tried.
cands(base_param, stat) ==
  LET pref == IF startswith(base_param, "chla") THEN "chla" ELSE "turb"
  IN CASE stat = "mean"   -> << pref \o "_mean" >>
       [] stat = "median" -> << pref \o "_media", pref \o "_median" >>
       [] stat = "count"  -> << pref \o "_count" >>
       [] OTHER           -> << pref \o "_" \o stat >>

\* next((c for c in cands if c in df.columns), cands[0])
resolve_stat_col(columns, base_param, stat) ==
  LET c == cands(base_param, stat)
      hits == SelectSeq(c, LAMBDA x : x \in columns)
  IN IF hits # << >> THEN hits[1] ELSE c[1]

\* df[col].astype(float) / 100, as [int, cent] with raw = Scale*int + cent.
values(df, col) ==
  [i \in DOMAIN df |-> [int |-> df[i][col] \div Scale, cent |-> df[i][col] % Scale]]

\* ------------------------------------------------------- the series filters
\* sel_mask with the end date excluded (<  for  <=).
sel_mask_end_excluded(r, sel_mass, d_range) ==
  /\ r.nmoriginal = sel_mass
  /\ r.date_key >= d_range[1]
  /\ r.date_key < d_range[2]

\* The row mask of the water body and the date range.
sel_mask(r, sel_mass, d_range) ==
  /\ r.nmoriginal = sel_mass
  /\ r.date_key >= d_range[1]
  /\ r.date_key <= d_range[2]

\* df = df[df[param_col] > 0]
positive(df, param_col) == SelectSeq(df, LAMBDA r : r[param_col] > 0)

\* 4 * s.quantile(0.25), pandas' linear interpolation between the order
\* statistics around position 0.25*(n-1); NaN (here -1) for an empty series.
quantile4(s) ==
  LET a == SortSeq(s, LAMBDA x, y : x < y)
      n == Len(a)
      lo == (n - 1) \div 4
      fr == (n - 1) % 4
  IN IF n = 0 THEN -1
     ELSE IF fr = 0 THEN 4 * a[lo + 1]
     ELSE 4 * a[lo + 1] + fr * (a[lo + 2] - a[lo + 1])

\* thr4 without the floor of 5 pixels: the bare 25th percentile.
thr4_without_floor(df, cnt_col) == quantile4([i \in DOMAIN df |-> df[i][cnt_col]])

\* 4 * max(5, df[cnt_col].quantile(0.25)); max(5, NaN) is 5.
thr4(df, cnt_col) ==
  LET q == quantile4([i \in DOMAIN df |-> df[i][cnt_col]])
  IN IF q > 4 * MinPixels THEN q ELSE 4 * MinPixels

\* df = df[df[cnt_col] >= thr]
low_count_filter(df, cnt_col, t4) == SelectSeq(df, LAMBDA r : 4 * r[cnt_col] >= t4)

\* df.sort_values("date_key", inplace=True, ignore_index=True)
sort_values(df) == SortSeq(df, LAMBDA r, q : r.date_key < q.date_key)

x_vals_of(df) == [i \in DOMAIN df |-> df[i].date_key]

\* ------------------------------------------------------------ left column
\* What one run of the left column computes, given the widget values asked
\* for.  out is "chart", "EmptyResult" (st.warning and st.stop) or "KeyError"
\* (an uncaught exception ends the run).  low and roll are the values the two
\* checkboxes return in this run: a checkbox the run does not reach keeps no
\* state and reads its default (False) when it is next shown.
LeftColumn(g, m, p, s, dr, lc, sr) ==
  LET columns == DOMAIN g[1]
      d0 == SelectSeq(g, LAMBDA r : sel_mask(r, m, dr))
      dead == [out |-> "KeyError", df |-> d0, low |-> FALSE, thr |-> << >>,
               y_col |-> None, x_vals |-> << >>, y_vals |-> << >>, roll |-> FALSE]
  IN IF p \notin columns THEN dead
     ELSE
       LET d1 == positive(d0, p)
           cnt_col == resolve_stat_col(columns, p, "count")
           low == cnt_col \in columns /\ lc
           t == IF low THEN << thr4(d1, cnt_col) >> ELSE << >>
           d2 == IF low THEN low_count_filter(d1, cnt_col, t[1]) ELSE d1
       IN IF d2 = << >>
          THEN [dead EXCEPT !.out = "EmptyResult", !.df = d2, !.low = low, !.thr = t]
          ELSE
            LET d3 == sort_values(d2)
                y == resolve_stat_col(columns, p, s)
            IN IF y \notin columns
               THEN [dead EXCEPT !.df = d3, !.low = low, !.thr = t, !.y_col = y,
                                 !.x_vals = x_vals_of(d3)]
               ELSE [out |-> "chart", df |-> d3, low |-> low, thr |-> t, y_col |-> y,
                     x_vals |-> x_vals_of(d3), y_vals |-> values(d3, y), roll |-> sr]

\* ----------------------------------------------------------- right column
year(date) == date \div 10000
month(date) == (date \div 100) % 100
day(date) == date % 100
Pad2(n) == IF n < 10 THEN "0" \o ToString(n) ELSE ToString(n)

\* date.strftime("%Y%m%d") and date.strftime("%Y_%m")
strftime_Ymd(date) == ToString(year(date)) \o Pad2(month(date)) \o Pad2(day(date))
strftime_Y_m(date) == ToString(year(date)) \o "_" \o Pad2(month(date))

\* base = "Chla" if param_col.startswith("chla") else "Turbidez"
base_of(param_col) == IF startswith(param_col, "chla") THEN "Chla" ELSE "Turbidez"

path_Diario(gid, param_col, date) ==
  LET base == base_of(param_col)
      name == strftime_Ymd(date) \o "_" \o (IF base = "Chla" THEN "Chla" ELSE "Turb")
              \o "_Diario.png"
  IN Join(<<MAPS_FOLDER, ToString(gid), base, "Diário", name>>)

folder_Mensal(gid, param_col) ==
  Join(<<MAPS_FOLDER, ToString(gid), base_of(param_col), "Mensal", "Média">>)

\* ls is what os.listdir(folder) gave: a listing, or FileNotFoundError, which
\* the try/except StopIteration does not catch.
path_Mensal(gid, param_col, date, ls) ==
  IF ls.raised THEN "FileNotFoundError"
  ELSE LET hits == SelectSeq(ls.names, LAMBDA f : startswith(f, strftime_Y_m(date)))
       IN IF hits = << >> THEN None
          ELSE Join(<<folder_Mensal(gid, param_col), hits[1]>>)

\* path_Estado_Trofico_Mensal without the chlorophyll-a guard.
path_Estado_Trofico_Mensal_unguarded(gid, param_col, date) ==
  Join(<<MAPS_FOLDER, ToString(gid), "Chla", "Mensal", "Média", "IET",
         strftime_Y_m(date) \o "_IET.png">>)

path_Estado_Trofico_Mensal(gid, param_col, date) ==
  IF ~startswith(param_col, "chla") THEN None
  ELSE Join(<<MAPS_FOLDER, ToString(gid), "Chla", "Mensal", "Média", "IET",
              strftime_Y_m(date) \o "_IET.png">>)

path_Trimestral(gid, param_col, date) ==
  LET q == (month(date) - 1) \div 3 + 1
      name == ToString(year(date)) \o "_" \o ToString(q) \o "°Trimestre_Média.png"
  IN Join(<<MAPS_FOLDER, ToString(gid), base_of(param_col), "Trimestral", "Média", name>>)

\* path_Anual named after the day of the observation instead of its year.
path_Anual_by_day(gid, param_col, date) ==
  Join(<<MAPS_FOLDER, ToString(gid), base_of(param_col), "Anual", "Média",
         strftime_Ymd(date) \o "_Média.png">>)

path_Anual(gid, param_col, date) ==
  Join(<<MAPS_FOLDER, ToString(gid), base_of(param_col), "Anual", "Média",
         ToString(year(date)) \o "_Média.png">>)

path_Estado_Trofico(gid, param_col, date) ==
  IF ~startswith(param_col, "chla") THEN None
  ELSE Join(<<MAPS_FOLDER, ToString(gid), "Chla", "2018_2024", "Permanência_90",
              "2018_2024_IET90.png">>)

path_Permanencia(gid, param_col, date) ==
  Join(<<MAPS_FOLDER, ToString(gid), base_of(param_col), "Anual", "Permanência_90",
         ToString(year(date)) \o "_Permanência 90%.png">>)

\* The path of row's map, None, or "FileNotFoundError" when os.listdir raised.
build_path(row, param_col, agg_sel, ls) ==
  LET gid == row.gid
      date == row.date_key
  IN CASE agg_sel = "Diário" -> path_Diario(gid, param_col, date)
       [] agg_sel = "Mensal" -> path_Mensal(gid, param_col, date, ls)
       [] agg_sel = "Estado Trófico Mensal" -> path_Estado_Trofico_Mensal(gid, param_col, date)
       [] agg_sel = "Trimestral" -> path_Trimestral(gid, param_col, date)
       [] agg_sel = "Anual" -> path_Anual(gid, param_col, date)
       [] agg_sel = "Estado Trófico" -> path_Estado_Trofico(gid, param_col, date)
       [] OTHER -> path_Permanencia(gid, param_col, date)

\* if clicks and clicks[0]["curveNumber"] == 0
main_series_clicked(clicks) == clicks # << >> /\ clicks[1].curveNumber = 0

\* clicked_row counting the index from the end of the series.
clicked_row_from_end(df, clicks) == df[Len(df) - clicks[1].pointIndex]

\* row = df.iloc[clicks[0]["pointIndex"]]
clicked_row(df, clicks) == df[clicks[1].pointIndex + 1]

\* What one run of the right column shows, after a left column that reached
\* the chart.  probed says whether os.path.exists was called: "path and ..."
\* does not call it for None.
RightColumn(df, p, a, clicks, ls) ==
  IF main_series_clicked(clicks)
  THEN LET r == clicked_row(df, clicks)
           pth == build_path(r, p, a, ls)
       IN IF pth = "FileNotFoundError"
          THEN [out |-> "FileNotFoundError", row |-> <<r>>, path |-> None,
                probed |-> FALSE, text |-> ""]
          ELSE IF pth # None /\ os_path_exists(pth)
          THEN [out |-> "image", row |-> <<r>>, path |-> pth, probed |-> TRUE,
                text |-> "GID: " \o ToString(r.gid)]
          ELSE [out |-> "MapNotFound", row |-> <<r>>, path |-> pth, probed |-> pth # None,
                text |-> "Mapa não encontrado: " \o pth]
  ELSE [out |-> "NoSelection", row |-> << >>, path |-> None, probed |-> FALSE,
        text |-> "Clique em um ponto do gráfico para ver o mapa aqui."]

\* The listings os.listdir may return in a run: it is called only by the
\* Mensal branch of build_path, for the clicked row's folder.
Listings(df, p, a, clicks) ==
  IF main_series_clicked(clicks) /\ a = "Mensal"
  THEN os_listdir(folder_Mensal(clicked_row(df, clicks).gid, p))
  ELSE {[raised |-> FALSE, names |-> << >>]}

\* ------------------------------------------------------------------ state
VARIABLES
  gdf,         \* the table loaded at start, immutable afterwards
  sel_mass, param_col, stat_key, d_range, agg_sel,   \* the widgets' values
  low_count,   \* the value the low-pixel-count checkbox returned in the last run
  show_roll,   \* the value the rolling-mean checkbox returned in the last run
  clicks,      \* what plotly_events returned: << >> or <<[curveNumber, pointIndex]>>
  df, thr, y_col, x_vals, y_vals,   \* the left column's variables after the run
  left,        \* how the left column ended: chart, EmptyResult or KeyError
  row, path,   \* the click handler's variables: <<row>> and build_path's result
  probed,      \* whether os.path.exists was called in the last run
  right,       \* what the right column ended with
  shown        \* the text the right column displays

vars == <<gdf, sel_mass, param_col, stat_key, d_range, agg_sel, low_count,
          show_roll, clicks, df, thr, y_col, x_vals, y_vals, left, row, path,
          probed, right, shown>>

\* The right column of a run whose left column did not reach the chart.
NotReached == [out |-> "none", row |-> << >>, path |-> None, probed |-> FALSE, text |-> ""]

\* The arguments of plotly_events that vary: the figure.
Fig(xs, ys, roll, p) == [x |-> xs, y |-> ys, roll |-> roll, param |-> p]

\* gdf.columns
columns == DOMAIN gdf[1]

Init ==
  /\ gdf \in {Table(S) : S \in Schemas}
  /\ sel_mass = default
  /\ param_col = "chla_mean"
  /\ stat_key = "mean"
  /\ d_range = <<dmin, dmax>>
  /\ agg_sel = "Diário"
  /\ clicks = << >>
  /\ \E L \in {LeftColumn(gdf, default, "chla_mean", "mean", <<dmin, dmax>>, FALSE, FALSE)} :
     \E R \in {IF L.out = "chart"
               THEN RightColumn(L.df, "chla_mean", "Diário", << >>,
                                [raised |-> FALSE, names |-> << >>])
               ELSE NotReached} :
        /\ low_count = L.low
        /\ show_roll = L.roll
        /\ df = L.df
        /\ thr = L.thr
        /\ y_col = L.y_col
        /\ x_vals = L.x_vals
        /\ y_vals = L.y_vals
        /\ left = L.out
        /\ row = R.row
        /\ path = R.path
        /\ probed = R.probed
        /\ right = R.out
        /\ shown = R.text

\* One run of the script with the widgets at (m, p, s, dr, a, lc, sr) and the
\* chart component's state at ck.  The component keeps its state while the run
\* draws the figure it was clicked on, and starts empty on a new figure.
Pass(m, p, s, dr, a, lc, sr, ck) ==
  \E L \in {LeftColumn(gdf, m, p, s, dr, lc, sr)} :
  \E c \in {IF /\ L.out = "chart"
                /\ left = "chart"
                /\ Fig(L.x_vals, L.y_vals, L.roll, p) = Fig(x_vals, y_vals, show_roll, param_col)
             THEN ck ELSE << >>} :
  \E ls \in Listings(L.df, p, a, c) :
  \E R \in {IF L.out = "chart" THEN RightColumn(L.df, p, a, c, ls) ELSE NotReached} :
          /\ sel_mass' = m
          /\ param_col' = p
          /\ stat_key' = s
          /\ d_range' = dr
          /\ agg_sel' = a
          /\ low_count' = L.low
          /\ show_roll' = L.roll
          /\ clicks' = c
          /\ df' = L.df
          /\ thr' = L.thr
          /\ y_col' = L.y_col
          /\ x_vals' = L.x_vals
          /\ y_vals' = L.y_vals
          /\ left' = L.out
          /\ row' = R.row
          /\ path' = R.path
          /\ probed' = R.probed
          /\ right' = R.out
          /\ shown' = R.text
          /\ UNCHANGED gdf

SelectMass ==
  \E m \in Range(masses) \ {sel_mass} :
    Pass(m, param_col, stat_key, d_range, agg_sel, low_count, show_roll, clicks)

SelectParam ==
  \E p \in param_opts \ {param_col} :
    Pass(sel_mass, p, stat_key, d_range, agg_sel, low_count, show_roll, clicks)

SelectStat ==
  \E s \in stat_opts \ {stat_key} :
    Pass(sel_mass, param_col, s, d_range, agg_sel, low_count, show_roll, clicks)

SlideDates ==
  \E dr \in SliderRanges \ {d_range} :
    Pass(sel_mass, param_col, stat_key, dr, agg_sel, low_count, show_roll, clicks)

SelectAgg ==
  \E a \in agg_opts \ {agg_sel} :
    Pass(sel_mass, param_col, stat_key, d_range, a, low_count, show_roll, clicks)

\* The checkbox is drawn only when the count column exists (and line 122 passed).
ToggleLowCount ==
  /\ param_col \in columns
  /\ resolve_stat_col(columns, param_col, "count") \in columns
  /\ Pass(sel_mass, param_col, stat_key, d_range, agg_sel, ~low_count, show_roll, clicks)

ToggleRoll ==
  /\ left = "chart"
  /\ Pass(sel_mass, param_col, stat_key, d_range, agg_sel, low_count, ~show_roll, clicks)

\* A click on a point of the chart on screen: of the main series (curve 0) or,
\* when it is drawn, of the rolling-mean line (curve 1).
ClickPoint ==
  /\ left = "chart"
  /\ \E c \in {0} \cup (IF show_roll THEN {1} ELSE {}), i \in 0..(Len(x_vals) - 1) :
       Pass(sel_mass, param_col, stat_key, d_range, agg_sel, low_count, show_roll,
            << [curveNumber |-> c, pointIndex |-> i] >>)

\* Streamlit's "Rerun": the script runs again with nothing changed.
Rerun ==
  Pass(sel_mass, param_col, stat_key, d_range, agg_sel, low_count, show_roll, clicks)

Next ==
  \/ SelectMass
  \/ SelectParam
  \/ SelectStat
  \/ SlideDates
  \/ SelectAgg
  \/ ToggleLowCount
  \/ ToggleRoll
  \/ ClickPoint
  \/ Rerun

Spec == Init /\ [][Next]_vars

\* ----------------------------------------------------------------- claims
\* The runs in which the click handler called build_path.
Resolved == right \in {"image", "MapNotFound", "FileNotFoundError"}

\* The rows of the table that pass the water-body, date and positive-value
\* filters of the current selection (as indices of gdf).
Earlier ==
  {i \in DOMAIN gdf : /\ gdf[i].nmoriginal = sel_mass
                      /\ d_range[1] <= gdf[i].date_key
                      /\ gdf[i].date_key <= d_range[2]
                      /\ param_col \in columns
                      /\ gdf[i][param_col] > 0}

\* C1: after the non-positive-value filter no row of the charted series has a
\* value <= 0 in the column selected for display (the one resolve_stat_col
\* returned for the chosen parameter and statistic).
C1_DisplayedValuesPositive ==
  left = "chart" => \A i \in DOMAIN df : df[i][y_col] > 0

\* C2: for the median statistic the canonical column p_median is used whenever
\* the table has it, and the truncated alias p_media only when p_median is
\* absent and p_media is present.  (Stated for the tables that have one of the
\* two; the table with neither is C3's case.)
C2_CanonicalMedianPreferred ==
  (stat_key = "median" /\ y_col # None
     /\ \E c \in Range(cands(param_col, stat_key)) : c \in columns) =>
    LET pre == IF param_col = "chla_mean" THEN "chla" ELSE "turb"
    IN /\ (pre \o "_median") \in columns => y_col = pre \o "_median"
       /\ y_col = pre \o "_media" =>
            ((pre \o "_median") \notin columns /\ (pre \o "_media") \in columns)

\* C3: when no candidate column of the requested parameter and statistic is in
\* the table, resolution yields ColumnNotFound, never a name that is not a
\* column, and the run ends with a message, not an uncaught exception.
C3_ColumnNotFoundHandled ==
  (y_col # None /\ \A c \in Range(cands(param_col, stat_key)) : c \notin columns) =>
    (y_col = "ColumnNotFound" /\ left # "KeyError")

\* C4: at the Mensal level a click shows a file of the site's monthly folder
\* whose name starts with the clicked date's YYYY_MM when there is one, and
\* otherwise (no such file, or no such folder) the map-not-found message,
\* never an exception.
C4_MonthlyFoundOrNotFound ==
  (Resolved /\ agg_sel = "Mensal") =>
    LET r == row[1]
        folder == Join(<<MAPS_FOLDER, ToString(r.gid),
                         IF param_col = "chla_mean" THEN "Chla" ELSE "Turbidez",
                         "Mensal", "Média">>)
        ym == ToString(r.date_key \div 10000) \o "_" \o Pad2((r.date_key \div 100) % 100)
        match == IF folder \in DOMAIN MapDirs
                 THEN {f \in MapDirs[folder] : startswith(f, ym)} ELSE {}
    IN IF match # {}
       THEN right = "image" /\ \E f \in match : path = folder \o "/" \o f
       ELSE right = "MapNotFound" /\ path = None

\* The part of C4 that holds: the same, for the sites whose monthly folder exists.
C4_WhenFolderExists ==
  (Resolved /\ agg_sel = "Mensal"
     /\ folder_Mensal(row[1].gid, param_col) \in DOMAIN MapDirs) => C4_MonthlyFoundOrNotFound

\* The pixel counts of the rows in Earlier, and their k-th smallest (k from 1):
\* the count v with fewer than k counts below it and at least k counts up to it.
CountOf(i) == gdf[i][IF param_col = "chla_mean" THEN "chla_count" ELSE "turb_count"]
OrderStat(k) ==
  CHOOSE v \in {CountOf(i) : i \in Earlier} :
    /\ Cardinality({i \in Earlier : CountOf(i) < v}) < k
    /\ Cardinality({i \in Earlier : CountOf(i) <= v}) >= k

\* Four times the 25th percentile of those counts: the point a quarter of the
\* way from the smallest to the largest of the n counts, position (n-1)/4.
Percentile25x4 ==
  LET n == Cardinality(Earlier)
      lo == (n - 1) \div 4
      fr == (n - 1) % 4
  IN IF fr = 0 THEN 4 * OrderStat(lo + 1)
     ELSE (4 - fr) * OrderStat(lo + 1) + fr * OrderStat(lo + 2)

\* C5: with the low-pixel-count filter on, the threshold is max(5, 25th
\* percentile of the count column over the rows that passed the earlier
\* filters), every retained row has count >= the threshold, and when no row
\* qualifies the run ends in EmptyResult with no chart and no map resolution.
C5_LowCountFilter ==
  low_count =>
    /\ Len(thr) = 1
    /\ thr[1] >= 4 * MinPixels
    /\ Earlier # {} => /\ thr[1] >= Percentile25x4
                       /\ thr[1] = 4 * MinPixels \/ thr[1] = Percentile25x4
    /\ \A i \in DOMAIN df : 4 * df[i][resolve_stat_col(columns, param_col, "count")] >= thr[1]
    /\ (\A i \in Earlier : 4 * CountOf(i) < thr[1]) =>
         /\ left = "EmptyResult"
         /\ df = << >> /\ x_vals = << >> /\ y_vals = << >>
         /\ ~Resolved /\ path = None /\ ~probed

\* C5's case: the filter acted with an interpolated threshold above 5, dropping
\* some rows and keeping others.
C5_Witness ==
  /\ low_count /\ left = "chart"
  /\ thr[1] > 4 * MinPixels /\ thr[1] % 4 # 0
  /\ Len(df) < Cardinality(Earlier)

\* C6 as stated: at the Anual level the path below the maps root is
\* {site}/{Chla|Turbidity}/Annual/Mean/{YYYY}_Mean.png.
C6_AnnualPathAsStated ==
  (Resolved /\ agg_sel = "Anual") =>
    path = Join(<<MAPS_FOLDER, ToString(row[1].gid),
                  IF param_col = "chla_mean" THEN "Chla" ELSE "Turbidity",
                  "Annual", "Mean", ToString(row[1].date_key \div 10000) \o "_Mean.png">>)

\* C6, amended: at the Anual level the path below the maps root is
\* {site}/{Chla|Turbidez}/Anual/Média/{YYYY}_Média.png; the image is shown when
\* that file exists, and otherwise the map-not-found message carries exactly
\* that path.
C6_AnnualPath ==
  (Resolved /\ agg_sel = "Anual") =>
    LET expected == MAPS_FOLDER \o "/" \o ToString(row[1].gid) \o "/"
                    \o (IF param_col = "chla_mean" THEN "Chla" ELSE "Turbidez")
                    \o "/Anual/Média/" \o ToString(row[1].date_key \div 10000) \o "_Média.png"
    IN /\ path = expected
       /\ probed
       /\ IF expected \in MapFiles
          THEN right = "image"
          ELSE right = "MapNotFound" /\ shown = "Mapa não encontrado: " \o expected

\* C6's case: site 42, turbidity, 2020-06-15, whose annual map is absent.
C6_Witness ==
  /\ Resolved /\ agg_sel = "Anual" /\ param_col = "turb_mean"
  /\ row[1].gid = 42 /\ row[1].date_key = 20200615
  /\ path = "maps/42/Turbidez/Anual/Média/2020_Média.png"
  /\ right = "MapNotFound"

\* C7: with turbidity, both trophic-state levels give no path for every site
\* and date, os.path.exists is not called and no image is shown; with
\* chlorophyll-a the Estado Trófico path depends on the site id only.
C7_TrophicState ==
  /\ (Resolved /\ param_col = "turb_mean"
        /\ agg_sel \in {"Estado Trófico", "Estado Trófico Mensal"}) =>
       (path = None /\ ~probed /\ right = "MapNotFound")
  /\ (Resolved /\ param_col = "chla_mean" /\ agg_sel = "Estado Trófico") =>
       path = MAPS_FOLDER \o "/" \o ToString(row[1].gid)
              \o "/Chla/2018_2024/Permanência_90/2018_2024_IET90.png"

\* C7's case: a point of the turbidity series clicked at a trophic-state level.
C7_Witness ==
  /\ Resolved /\ param_col = "turb_mean" /\ agg_sel = "Estado Trófico Mensal"
  /\ path = None

\* C8: two consecutive runs that resolve a path for the same row, parameter and
\* aggregation level, over the same map image tree, resolve the same path.
C8_PathDeterministic ==
  [][(Resolved /\ Resolved' /\ row' = row /\ param_col' = param_col /\ agg_sel' = agg_sel)
       => (path' = path /\ right' = right)]_vars

\* The part of C8 that holds: the same, for every level but Mensal.
C8_ExceptMonthly ==
  [][(Resolved /\ Resolved' /\ row' = row /\ param_col' = param_col /\ agg_sel' = agg_sel
        /\ agg_sel # "Mensal")
       => (path' = path /\ right' = right)]_vars

\* C9: every row of the filtered series has the selected water body and a date
\* within [a, b], and the date filter removes no observation dated a or b (nor
\* any in between): a row of the selected water body in the range is missing
\* only if a later filter dropped it.
C9_BodyAndDateFilter ==
  /\ \A i \in DOMAIN df :
       /\ df[i].nmoriginal = sel_mass
       /\ d_range[1] <= df[i].date_key
       /\ df[i].date_key <= d_range[2]
  /\ \A i \in DOMAIN gdf :
       ( /\ gdf[i].nmoriginal = sel_mass
         /\ d_range[1] <= gdf[i].date_key
         /\ gdf[i].date_key <= d_range[2]
         /\ param_col \in columns => gdf[i][param_col] > 0
         /\ low_count => 4 * CountOf(i) >= thr[1] )
       => \E j \in DOMAIN df : df[j] = gdf[i]

\* C9's case: a proper sub-range whose two end dates both carry a retained
\* observation, with an observation of the water body left outside.
C9_Witness ==
  /\ left = "chart" /\ d_range[1] < d_range[2]
  /\ \E j \in DOMAIN df : df[j].date_key = d_range[1]
  /\ \E j \in DOMAIN df : df[j].date_key = d_range[2]
  /\ \E i \in DOMAIN gdf : gdf[i].nmoriginal = sel_mass /\ gdf[i].date_key > d_range[2]

\* C10: in a run that reaches the chart the series is sorted by date, the
\* plotted lists are read off it index by index, a path is resolved only for a
\* click on curve 0, and then for the row plotted at the clicked index; with no
\* click or a click on the rolling-mean line the placeholder is shown and
\* nothing is resolved.
C10_ClickedRowIsPlottedRow ==
  /\ left # "chart" => ~Resolved
  /\ left = "chart" =>
       /\ \A i, j \in DOMAIN df : i < j => df[i].date_key <= df[j].date_key
       /\ DOMAIN x_vals = DOMAIN df /\ DOMAIN y_vals = DOMAIN df
       /\ \A i \in DOMAIN df :
            /\ x_vals[i] = df[i].date_key
            /\ Scale * y_vals[i].int + y_vals[i].cent = df[i][y_col]
       /\ IF clicks # << >> /\ clicks[1].curveNumber = 0
          THEN /\ Resolved
               /\ Len(row) = 1
               /\ \E i \in DOMAIN gdf : gdf[i] = row[1]
               /\ row[1].nmoriginal = sel_mass
               /\ row[1].date_key = x_vals[clicks[1].pointIndex + 1]
               /\ Scale * y_vals[clicks[1].pointIndex + 1].int
                    + y_vals[clicks[1].pointIndex + 1].cent = row[1][y_col]
          ELSE /\ right = "NoSelection"
               /\ row = << >> /\ path = None /\ ~probed

\* C10's case: a click on a later point of a series whose date order differs
\* from the table's row order.
C10_Witness ==
  /\ left = "chart" /\ clicks # << >> /\ clicks[1].curveNumber = 0
  /\ clicks[1].pointIndex >= 1
  /\ right = "image"
  /\ \E i, j \in DOMAIN gdf : /\ i < j /\ gdf[i].date_key > gdf[j].date_key
                              /\ gdf[i] \in Range(df) /\ gdf[j] \in Range(df)

=============================================================================
